---- MODULE Spec2Model ----
(***************************************************************************)
(* Model of netlify/functions/sync.js: the sync handler that merges a      *)
(* client-submitted snapshot into the single persisted document 'main'.    *)
(*                                                                         *)
(* A document is a function from field names to values; a field that the   *)
(* JSON object omits is a name outside its DOMAIN.  A JSON object is a     *)
(* function from its keys, a JSON array a sequence.  lastUpdated (the wall *)
(* clock) and the constant _id are left out of the documents: no merge     *)
(* rule reads them.                                                        *)
(***************************************************************************)
EXTENDS Integers, Sequences, FiniteSets, TLC

(***************************************************************************)
(* Bounds of the model.                                                    *)
(***************************************************************************)
MaxXP == 2          \* largest totalXP a client submits
MaxScore == 3       \* cap on |dailyRevisionScores[date][player]|
MaxReports == 2     \* longest reportedQuestions list a client submits

Clients == {"c1", "c2"}
Players == {"alice", "bob"}
SetIds == {"s1", "s2"}
SetDefs == {"v1", "v2"}
Badges == {"x", "y"}
Dates == {"d1", "d2"}
AttemptKeys == {"k1", "k2"}
\* attempt records are opaque JSON values; "" is one that JavaScript
\* treats as false in a condition
AttemptRecords == {"", "a1", "a2"}
Items == {"i1", "i2"}
ProgressRecords == {"p1", "p2"}
ReportIds == {"r1", "r2"}
ReportTexts == {"old", "new"}
XPValues == -1 .. MaxXP
ScoreIncrements == {-1, 0, 1}

FieldNames == {"questionSets", "playerProfiles", "dailyRevisionScores",
               "practiceHistory", "revisionProgress", "reportedQuestions"}

(***************************************************************************)
(* JavaScript helpers.                                                     *)
(***************************************************************************)
\* the empty object {} (and the result of spreading undefined)
EmptyObject == [k \in {} |-> 0]

\* all JSON objects with keys among K and values in V
Objects(K, V) == UNION {[S -> V] : S \in SUBSET K}

\* obj.f || dflt, for a field holding an object or an array (both truthy
\* whenever present)
OrDefault(obj, f, dflt) == IF f \in DOMAIN obj THEN obj[f] ELSE dflt

\* truthiness of an attempt record: of the values used here only the empty
\* string is falsy
Truthy(v) == v # ""

\* profile.totalXP || 0
XPOrZero(profile) ==
    IF "totalXP" \in DOMAIN profile /\ profile.totalXP # 0
    THEN profile.totalXP ELSE 0

\* scores[player] || 0
ScoreOrZero(scores, player) ==
    IF player \in DOMAIN scores /\ scores[player] # 0
    THEN scores[player] ELSE 0

(***************************************************************************)
(* The merge, field by field (sync.js lines 75-135).                       *)
(***************************************************************************)

\* variant: the spreads in the other order, stored winning a collision
MergeQuestionSetsKeepStored(existingData, incomingData) ==
    LET e == OrDefault(existingData, "questionSets", EmptyObject)
        i == OrDefault(incomingData, "questionSets", EmptyObject)
    IN  [k \in DOMAIN e \cup DOMAIN i |->
            IF k \in DOMAIN e THEN e[k] ELSE i[k]]

\* { ...existingData.questionSets, ...incomingData.questionSets }
MergeQuestionSets(existingData, incomingData) ==
    LET e == OrDefault(existingData, "questionSets", EmptyObject)
        i == OrDefault(incomingData, "questionSets", EmptyObject)
    IN  [k \in DOMAIN e \cup DOMAIN i |->
            IF k \in DOMAIN i THEN i[k] ELSE e[k]]

\* variant: >= in place of >, incoming winning a tie
ReplacesPlayerOnTie(existing, player, incomingPlayer) ==
    \/ player \notin DOMAIN existing
    \/ /\ "totalXP" \in DOMAIN incomingPlayer
       /\ incomingPlayer.totalXP >= XPOrZero(existing[player])

\* !existingPlayer || incomingPlayer.totalXP > (existingPlayer.totalXP || 0)
\* (a comparison with an undefined totalXP is false)
ReplacesPlayer(existing, player, incomingPlayer) ==
    \/ player \notin DOMAIN existing
    \/ /\ "totalXP" \in DOMAIN incomingPlayer
       /\ incomingPlayer.totalXP > XPOrZero(existing[player])

\* variant: the XP comparison left out, incoming always replacing
MergePlayerProfilesIncomingWins(existingData, incomingData) ==
    LET e == OrDefault(existingData, "playerProfiles", EmptyObject)
        i == OrDefault(incomingData, "playerProfiles", EmptyObject)
    IN  [p \in DOMAIN e \cup DOMAIN i |-> IF p \in DOMAIN i THEN i[p] ELSE e[p]]

\* mergedData.playerProfiles: the copy of line 80, then the loop of 89-96
MergePlayerProfiles(existingData, incomingData) ==
    LET e == OrDefault(existingData, "playerProfiles", EmptyObject)
        i == OrDefault(incomingData, "playerProfiles", EmptyObject)
    IN  [p \in DOMAIN e \cup DOMAIN i |->
            IF p \in DOMAIN i /\ ReplacesPlayer(e, p, i[p])
            THEN i[p] ELSE e[p]]

\* variant: the incoming score assigned instead of added
AddScoresOverwrite(scores, incomingScores) ==
    [p \in DOMAIN scores \cup DOMAIN incomingScores |->
        IF p \in DOMAIN incomingScores THEN incomingScores[p] ELSE scores[p]]

\* variant: a score kept once stored, set only when new
AddScoresOnce(scores, incomingScores) ==
    [p \in DOMAIN scores \cup DOMAIN incomingScores |->
        IF p \in DOMAIN scores THEN scores[p] ELSE incomingScores[p]]

\* the inner loop of the daily-score merge for one date: scores is
\* mergedData.dailyRevisionScores[date] (a fresh {} for a new date)
AddScores(scores, incomingScores) ==
    [p \in DOMAIN scores \cup DOMAIN incomingScores |->
        IF p \in DOMAIN incomingScores
        THEN ScoreOrZero(scores, p) + incomingScores[p]
        ELSE scores[p]]

\* mergedData.dailyRevisionScores: the copy of line 81, then lines 99-108
MergeDailyRevisionScores(existingData, incomingData) ==
    LET e == OrDefault(existingData, "dailyRevisionScores", EmptyObject)
        i == OrDefault(incomingData, "dailyRevisionScores", EmptyObject)
    IN  [d \in DOMAIN e \cup DOMAIN i |->
            IF d \in DOMAIN i
            THEN AddScores(IF d \in DOMAIN e THEN e[d] ELSE EmptyObject, i[d])
            ELSE e[d]]

\* variant: an incoming record inserted only when it is itself truthy
MergePracticeHistoryTruthyOnly(existingData, incomingData) ==
    LET e == OrDefault(existingData, "practiceHistory", EmptyObject)
        i == OrDefault(incomingData, "practiceHistory", EmptyObject)
    IN  [k \in DOMAIN e \cup {x \in DOMAIN i : Truthy(i[x])} |->
            IF k \in DOMAIN i /\ ~(k \in DOMAIN e /\ Truthy(e[k]))
            THEN i[k] ELSE e[k]]

\* if (!mergedData.practiceHistory[key]) mergedData.practiceHistory[key] = ...
\* (the test is on the stored record's truthiness, not on the key)
MergePracticeHistory(existingData, incomingData) ==
    LET e == OrDefault(existingData, "practiceHistory", EmptyObject)
        i == OrDefault(incomingData, "practiceHistory", EmptyObject)
    IN  [k \in DOMAIN e \cup DOMAIN i |->
            IF k \in DOMAIN i /\ ~(k \in DOMAIN e /\ Truthy(e[k]))
            THEN i[k] ELSE e[k]]

\* variant: a key assigned only when the player does not have it yet
AssignProgressKeepStored(progress, incomingProgress) ==
    [k \in DOMAIN progress \cup DOMAIN incomingProgress |->
        IF k \in DOMAIN progress THEN progress[k] ELSE incomingProgress[k]]

\* the inner loop of the revision-progress merge for one player: every
\* incoming key is assigned
AssignProgress(progress, incomingProgress) ==
    [k \in DOMAIN progress \cup DOMAIN incomingProgress |->
        IF k \in DOMAIN incomingProgress
        THEN incomingProgress[k] ELSE progress[k]]

\* mergedData.revisionProgress: the copy of line 83, then lines 118-125
MergeRevisionProgress(existingData, incomingData) ==
    LET e == OrDefault(existingData, "revisionProgress", EmptyObject)
        i == OrDefault(incomingData, "revisionProgress", EmptyObject)
    IN  [p \in DOMAIN e \cup DOMAIN i |->
            IF p \in DOMAIN i
            THEN AssignProgress(IF p \in DOMAIN e THEN e[p] ELSE EmptyObject,
                                i[p])
            ELSE e[p]]

\* variant: the whole records compared, not their reportId
ReportExistsSameRecord(reports, newReport) ==
    \E n \in 1 .. Len(reports) : reports[n] = newReport

\* mergedData.reportedQuestions.some(r => r.reportId === newReport.reportId)
ReportExists(reports, newReport) ==
    \E n \in 1 .. Len(reports) : reports[n].reportId = newReport.reportId

\* variant: each incoming report looked up in the stored list only
PushReportsNoRescan(reports, incomingReports) ==
    reports \o SelectSeq(incomingReports, LAMBDA r : ~ReportExists(reports, r))

\* variant: every incoming report pushed
PushReportsAll(reports, incomingReports) == reports \o incomingReports

\* the forEach over the incoming reports, pushing onto the accumulated list
RECURSIVE PushReports(_, _)
PushReports(reports, incomingReports) ==
    IF incomingReports = <<>> THEN reports
    ELSE PushReports(IF ReportExists(reports, Head(incomingReports))
                     THEN reports
                     ELSE Append(reports, Head(incomingReports)),
                     Tail(incomingReports))

\* variant: the list started empty, not from a copy of stored's
MergeReportedQuestionsFromIncoming(existingData, incomingData) ==
    PushReports(<<>>, OrDefault(incomingData, "reportedQuestions", <<>>))

\* mergedData.reportedQuestions: the copy of line 84, then lines 128-135
MergeReportedQuestions(existingData, incomingData) ==
    PushReports(OrDefault(existingData, "reportedQuestions", <<>>),
                OrDefault(incomingData, "reportedQuestions", <<>>))

\* mergedData as it stands at line 137
Merge(existingData, incomingData) ==
    [questionSets        |-> MergeQuestionSets(existingData, incomingData),
     playerProfiles      |-> MergePlayerProfiles(existingData, incomingData),
     dailyRevisionScores |-> MergeDailyRevisionScores(existingData, incomingData),
     practiceHistory     |-> MergePracticeHistory(existingData, incomingData),
     revisionProgress    |-> MergeRevisionProgress(existingData, incomingData),
     reportedQuestions   |-> MergeReportedQuestions(existingData, incomingData)]

(***************************************************************************)
(* Requests.                                                               *)
(***************************************************************************)
Methods == {"OPTIONS", "GET", "POST", "DELETE"}

\* event.body: a text that JSON.parse turns into value, or one on which
\* lines 64-67 throw (JSON.parse rejects it, or it parses to null)
Malformed == [parses |-> FALSE, value |-> EmptyObject]
Json(doc) == [parses |-> TRUE, value |-> doc]

Profiles ==
    {("badge" :> b) : b \in Badges} \cup
    {[totalXP |-> x, badge |-> b] : x \in XPValues, b \in Badges}

\* dailyRevisionScores objects: any scores on the first date, at most one
\* fixed entry on the second
ScoreObjects ==
    {o \in Objects(Dates, Objects(Players, ScoreIncrements)) :
        "d2" \in DOMAIN o => o["d2"] \in {EmptyObject, [alice |-> 1]}}

Reports == [reportId : ReportIds, text : ReportTexts]
ReportLists == UNION {[1 .. n -> Reports] : n \in 0 .. MaxReports}

\* documents with the single field f, one per value in V, and the document
\* that omits it
OneField(f, V) == {(f :> v) : v \in V} \cup {EmptyObject}

\* documents in which every field is either omitted or has one fixed value
MixedSample ==
    [questionSets        |-> [s1 |-> "v2"],
     playerProfiles      |-> [alice |-> [totalXP |-> 1, badge |-> "x"]],
     dailyRevisionScores |-> [d1 |-> [alice |-> 1]],
     practiceHistory     |-> [k1 |-> "a1"],
     revisionProgress    |-> [alice |-> [i1 |-> "p1"]],
     reportedQuestions   |-> << [reportId |-> "r1", text |-> "old"] >>]
MixedDocs == {[f \in S |-> MixedSample[f]] : S \in SUBSET FieldNames}

RaceProfileDocs ==
    {[playerProfiles |-> [alice |-> [totalXP |-> x, badge |-> "x"]]] :
        x \in 1 .. 2}
RaceScoreDocs ==
    {[dailyRevisionScores |-> [d1 |-> [alice |-> 1]]],
     [dailyRevisionScores |-> [d1 |-> [bob |-> 1]]]}
RaceReportDocs ==
    {[reportedQuestions |-> l] :
        l \in { << [reportId |-> "r1", text |-> "old"] >>,
                << [reportId |-> "r1", text |-> "new"],
                   [reportId |-> "r1", text |-> "old"] >>,
                << [reportId |-> "r2", text |-> "old"],
                   [reportId |-> "r1", text |-> "new"] >> }}

\* what the clients of one run submit: one field over its whole small
\* domain from a single client, a sample of several fields at once, or a
\* few documents from two clients whose invocations interleave
Workloads ==
    FieldNames \cup {"mixed", "raceProfiles", "raceScores", "raceReports"}

Docs(w) ==
    CASE w = "questionSets" ->
            OneField(w, Objects(SetIds, SetDefs))
      [] w = "playerProfiles" ->
            OneField(w, Objects(Players, Profiles))
      [] w = "dailyRevisionScores" ->
            OneField(w, ScoreObjects)
      [] w = "practiceHistory" ->
            OneField(w, Objects(AttemptKeys, AttemptRecords))
      [] w = "revisionProgress" ->
            OneField(w, Objects(Players, Objects(Items, ProgressRecords)))
      [] w = "reportedQuestions" ->
            OneField(w, ReportLists)
      [] w = "mixed" -> MixedDocs
      [] w = "raceProfiles" -> RaceProfileDocs
      [] w = "raceScores" -> RaceScoreDocs
      [] w = "raceReports" -> RaceReportDocs

Invokers(w) ==
    IF w \in {"raceProfiles", "raceScores", "raceReports"}
    THEN Clients ELSE {"c1"}

(***************************************************************************)
(* State.                                                                  *)
(***************************************************************************)
VARIABLES
    workload,       \* which requests this run's clients send
    collection,     \* app_data: _id -> document
    cachedClient,   \* the module-level connection cache, "null" when unset
    pc,             \* per invocation: the await it is suspended at
    event,          \* per invocation: the request
    incomingData,   \* per invocation: JSON.parse(event.body)
    existingData,   \* per invocation: the document read, {} when none
    mergedData,     \* per invocation: the merge result
    response        \* per invocation: what the last call returned

vars == <<workload, collection, cachedClient, pc, event, incomingData,
          existingData, mergedData, response>>

NoEvent == [httpMethod |-> "none", body |-> Malformed]
NoResponse == [statusCode |-> 0, body |-> EmptyObject]

EmptyStructure ==
    [questionSets |-> EmptyObject, playerProfiles |-> EmptyObject,
     dailyRevisionScores |-> EmptyObject, practiceHistory |-> EmptyObject,
     revisionProgress |-> EmptyObject, reportedQuestions |-> <<>>]

\* the catch of lines 170-179; message is error.message, here the name of
\* the call that threw
InternalServerError(message) ==
    [statusCode |-> 500,
     body |-> [error |-> "Internal server error", message |-> message]]
MethodNotAllowed ==
    [statusCode |-> 405, body |-> [error |-> "Method not allowed"]]

\* every score of the document lies within the cap
ScoresWithinCap(doc) ==
    \A d \in DOMAIN doc.dailyRevisionScores :
        \A p \in DOMAIN doc.dailyRevisionScores[d] :
            /\ doc.dailyRevisionScores[d][p] <= MaxScore
            /\ doc.dailyRevisionScores[d][p] >= -MaxScore

\* collection.updateOne({_id:'main'}, {$set: mergedData}, {upsert: true})
UpdateOneMain(coll, merged) ==
    IF "main" \in DOMAIN coll
    THEN [coll EXCEPT !["main"] =
            [f \in DOMAIN coll["main"] \cup DOMAIN merged |->
                IF f \in DOMAIN merged THEN merged[f] ELSE coll["main"][f]]]
    ELSE ("main" :> merged)

Init ==
    /\ workload \in Workloads
    /\ collection = EmptyObject
    /\ cachedClient = "null"
    /\ pc = [c \in Clients |-> "idle"]
    /\ event = [c \in Clients |-> NoEvent]
    /\ incomingData = [c \in Clients |-> EmptyObject]
    /\ existingData = [c \in Clients |-> EmptyObject]
    /\ mergedData = [c \in Clients |-> EmptyObject]
    /\ response = [c \in Clients |-> NoResponse]

\* the handler returns r: its locals go away
Return(c, r) ==
    /\ pc' = [pc EXCEPT ![c] = "idle"]
    /\ event' = [event EXCEPT ![c] = NoEvent]
    /\ incomingData' = [incomingData EXCEPT ![c] = EmptyObject]
    /\ existingData' = [existingData EXCEPT ![c] = EmptyObject]
    /\ mergedData' = [mergedData EXCEPT ![c] = EmptyObject]
    /\ response' = [response EXCEPT ![c] = r]

\* lines 16-30 and 5-10: the handler is entered; OPTIONS returns at once,
\* any other method calls connectToDatabase, which returns the cached
\* client or starts a connect
Invoke(c) ==
    /\ pc[c] = "idle"
    /\ c \in Invokers(workload)
    /\ \E m \in Methods, b \in {Json(d) : d \in Docs(workload)} \cup {Malformed} :
        /\ (m # "POST") => (b = Malformed)
        /\ IF m = "OPTIONS"
           THEN /\ Return(c, [statusCode |-> 200, body |-> EmptyObject])
           ELSE /\ pc' = [pc EXCEPT ![c] =
                            IF cachedClient # "null" THEN "connected"
                            ELSE "connecting"]
                /\ event' = [event EXCEPT ![c] = [httpMethod |-> m, body |-> b]]
                /\ response' = [response EXCEPT ![c] = NoResponse]
                /\ UNCHANGED <<incomingData, existingData, mergedData>>
    /\ UNCHANGED <<workload, collection, cachedClient>>

\* lines 11-13: client.connect() resolves and the client is cached
ConnectOk(c) ==
    /\ pc[c] = "connecting"
    /\ cachedClient' = c
    /\ pc' = [pc EXCEPT ![c] = "connected"]
    /\ UNCHANGED <<workload, collection, event, incomingData, existingData,
                   mergedData, response>>

\* line 11 throws: the catch of line 170 answers 500
ConnectFail(c) ==
    /\ pc[c] = "connecting"
    /\ Return(c, InternalServerError("connect"))
    /\ UNCHANGED <<workload, collection, cachedClient>>

\* variant: a body that does not parse is taken as the empty document
DispatchIgnoresParseError(c) ==
    /\ pc[c] = "connected"
    /\ CASE event[c].httpMethod \in {"GET", "POST"} ->
              /\ pc' = [pc EXCEPT ![c] = "findOne"]
              /\ incomingData' =
                   [incomingData EXCEPT ![c] = event[c].body.value]
              /\ UNCHANGED <<event, existingData, mergedData, response>>
         [] OTHER -> Return(c, MethodNotAllowed)
    /\ UNCHANGED <<workload, collection, cachedClient>>

\* lines 30-72 after the await of connectToDatabase: dispatch on the method
\* up to the next await
Dispatch(c) ==
    /\ pc[c] = "connected"
    /\ CASE event[c].httpMethod = "GET" ->
              /\ pc' = [pc EXCEPT ![c] = "findOne"]
              /\ UNCHANGED <<event, incomingData, existingData, mergedData,
                             response>>
         [] event[c].httpMethod = "POST" ->
              IF event[c].body.parses
              THEN /\ pc' = [pc EXCEPT ![c] = "findOne"]
                   /\ incomingData' =
                        [incomingData EXCEPT ![c] = event[c].body.value]
                   /\ UNCHANGED <<event, existingData, mergedData, response>>
              ELSE Return(c, InternalServerError("JSON.parse"))
         [] OTHER -> Return(c, MethodNotAllowed)
    /\ UNCHANGED <<workload, collection, cachedClient>>

\* variant: a GET that finds no document stores the empty structure
GetFindOneCreates(c) ==
    /\ pc[c] = "findOne"
    /\ event[c].httpMethod = "GET"
    /\ collection' = IF "main" \in DOMAIN collection
                     THEN collection ELSE ("main" :> EmptyStructure)
    /\ Return(c, [statusCode |-> 200, body |-> collection'["main"]])
    /\ UNCHANGED <<workload, cachedClient>>

\* lines 36-59: GET answers the document, or the empty structure
GetFindOne(c) ==
    /\ pc[c] = "findOne"
    /\ event[c].httpMethod = "GET"
    /\ Return(c, [statusCode |-> 200,
                  body |-> IF "main" \in DOMAIN collection
                           THEN collection["main"] ELSE EmptyStructure])
    /\ UNCHANGED <<workload, collection, cachedClient>>

\* lines 72-137: POST reads the document and merges, up to the updateOne
PostFindOne(c) ==
    /\ pc[c] = "findOne"
    /\ event[c].httpMethod = "POST"
    /\ LET existing == IF "main" \in DOMAIN collection
                       THEN collection["main"] ELSE EmptyObject
           merged == Merge(existing, incomingData[c])
       IN  /\ ScoresWithinCap(merged)
           /\ existingData' = [existingData EXCEPT ![c] = existing]
           /\ mergedData' = [mergedData EXCEPT ![c] = merged]
    /\ pc' = [pc EXCEPT ![c] = "updateOne"]
    /\ UNCHANGED <<workload, collection, cachedClient, event, incomingData,
                   response>>

\* findOne rejects: 500
FindOneFail(c) ==
    /\ pc[c] = "findOne"
    /\ Return(c, InternalServerError("findOne"))
    /\ UNCHANGED <<workload, collection, cachedClient>>

\* variant: the write merges incoming into the document as it is stored at
\* the time of the write, not into the one read earlier
UpdateOneOkRemerge(c) ==
    /\ pc[c] = "updateOne"
    /\ LET merged == Merge(IF "main" \in DOMAIN collection
                           THEN collection["main"] ELSE EmptyObject,
                           incomingData[c])
       IN  /\ collection' = UpdateOneMain(collection, merged)
           /\ Return(c, [statusCode |-> 200,
                         body |-> [success |-> TRUE,
                                   stats |-> [players |-> Cardinality(DOMAIN merged.playerProfiles),
                                              sets |-> Cardinality(DOMAIN merged.questionSets)]]])
    /\ UNCHANGED <<workload, cachedClient>>

\* variant: the counts answered are those of the incoming document, as
\* in the log of lines 66-69
UpdateOneOkIncomingStats(c) ==
    /\ pc[c] = "updateOne"
    /\ collection' = UpdateOneMain(collection, mergedData[c])
    /\ Return(c, [statusCode |-> 200,
                  body |-> [success |-> TRUE,
                            stats |-> [players |-> Cardinality(DOMAIN OrDefault(incomingData[c], "playerProfiles", EmptyObject)),
                                       sets |-> Cardinality(DOMAIN OrDefault(incomingData[c], "questionSets", EmptyObject))]]])
    /\ UNCHANGED <<workload, cachedClient>>

\* lines 138-160: the write, then the success response with the counts
UpdateOneOk(c) ==
    /\ pc[c] = "updateOne"
    /\ collection' = UpdateOneMain(collection, mergedData[c])
    /\ Return(c, [statusCode |-> 200,
                  body |-> [success |-> TRUE,
                            stats |-> [players |-> Cardinality(DOMAIN mergedData[c].playerProfiles),
                                       sets |-> Cardinality(DOMAIN mergedData[c].questionSets)]]])
    /\ UNCHANGED <<workload, cachedClient>>

\* variant: the error is answered after the document was written
UpdateOneFailAfterWrite(c) ==
    /\ pc[c] = "updateOne"
    /\ collection' = UpdateOneMain(collection, mergedData[c])
    /\ Return(c, InternalServerError("updateOne"))
    /\ UNCHANGED <<workload, cachedClient>>

\* updateOne rejects: 500, nothing written
UpdateOneFail(c) ==
    /\ pc[c] = "updateOne"
    /\ Return(c, InternalServerError("updateOne"))
    /\ UNCHANGED <<workload, collection, cachedClient>>

Next ==
    \E c \in Clients :
        \/ Invoke(c)
        \/ ConnectOk(c)
        \/ ConnectFail(c)
        \/ Dispatch(c)
        \/ GetFindOne(c)
        \/ PostFindOne(c)
        \/ FindOneFail(c)
        \/ UpdateOneOk(c)
        \/ UpdateOneFail(c)

Spec == Init /\ [][Next]_vars

(***************************************************************************)
(* What a merge is measured against.  An invocation suspended at the       *)
(* updateOne has merged incomingData into existingData; its three locals   *)
(* are the incoming, the stored and the merged document of that merge.     *)
(***************************************************************************)
HasMerged(c) == pc[c] = "updateOne"

EmptyOf(f) == IF f = "reportedQuestions" THEN <<>> ELSE EmptyObject
StoredF(c, f) == OrDefault(existingData[c], f, EmptyOf(f))
IncomingF(c, f) == OrDefault(incomingData[c], f, EmptyOf(f))
MergedF(c, f) == mergedData[c][f]

\* the pairs <<outer key, inner key>> of a two-level mapping
Pairs(m) == {<<a, b>> \in (DOMAIN m) \X UNION {DOMAIN m[a] : a \in DOMAIN m} :
                b \in DOMAIN m[a]}
At(m, pair) == m[pair[1]][pair[2]]

\* a profile's totalXP, a missing one counting as 0
TotalXP(profile) ==
    IF "totalXP" \in DOMAIN profile THEN profile.totalXP ELSE 0

\* C1 as the spec states it: a (player, item) pair present in the stored
\* revisionProgress keeps its stored value through every merge.
C1_FirstWriterWins ==
    \A c \in Clients : HasMerged(c) =>
        \A pr \in Pairs(StoredF(c, "revisionProgress")) :
            /\ pr \in Pairs(MergedF(c, "revisionProgress"))
            /\ At(MergedF(c, "revisionProgress"), pr) =
               At(StoredF(c, "revisionProgress"), pr)

\* C1 amended: in every merge each (player, item) pair of the incoming
\* revisionProgress takes the incoming value, also when the pair is stored;
\* a stored pair that incoming does not name keeps its stored value.
C1_IncomingWins ==
    \A c \in Clients : HasMerged(c) =>
        /\ \A pr \in Pairs(IncomingF(c, "revisionProgress")) :
            /\ pr \in Pairs(MergedF(c, "revisionProgress"))
            /\ At(MergedF(c, "revisionProgress"), pr) =
               At(IncomingF(c, "revisionProgress"), pr)
        /\ \A pr \in Pairs(StoredF(c, "revisionProgress")) \
                     Pairs(IncomingF(c, "revisionProgress")) :
            /\ pr \in Pairs(MergedF(c, "revisionProgress"))
            /\ At(MergedF(c, "revisionProgress"), pr) =
               At(StoredF(c, "revisionProgress"), pr)

\* a merge whose incoming names a stored pair with another value, and
\* leaves another stored pair alone
C1_Witness ==
    \E c \in Clients :
        /\ HasMerged(c)
        /\ \E pr \in Pairs(StoredF(c, "revisionProgress")) \cap
                     Pairs(IncomingF(c, "revisionProgress")) :
              At(StoredF(c, "revisionProgress"), pr) #
              At(IncomingF(c, "revisionProgress"), pr)
        /\ Pairs(StoredF(c, "revisionProgress")) \
           Pairs(IncomingF(c, "revisionProgress")) # {}

\* C2: in every merge a player of the stored playerProfiles is still there
\* with a totalXP (missing = 0) no lower than the stored one.
C2_XPNeverDecreases ==
    \A c \in Clients : HasMerged(c) =>
        \A p \in DOMAIN StoredF(c, "playerProfiles") :
            /\ p \in DOMAIN MergedF(c, "playerProfiles")
            /\ TotalXP(MergedF(c, "playerProfiles")[p]) >=
               TotalXP(StoredF(c, "playerProfiles")[p])

\* a merge whose incoming profile has less XP than the stored one
C2_Witness ==
    \E c \in Clients :
        /\ HasMerged(c)
        /\ \E p \in DOMAIN StoredF(c, "playerProfiles") \cap
                    DOMAIN IncomingF(c, "playerProfiles") :
              TotalXP(IncomingF(c, "playerProfiles")[p]) <
              TotalXP(StoredF(c, "playerProfiles")[p])

\* C3: in every merge a key of the stored practiceHistory keeps its stored
\* record, whatever incoming holds at that key.
C3_HistoryPermanent ==
    \A c \in Clients : HasMerged(c) =>
        \A k \in DOMAIN StoredF(c, "practiceHistory") :
            /\ k \in DOMAIN MergedF(c, "practiceHistory")
            /\ MergedF(c, "practiceHistory")[k] =
               StoredF(c, "practiceHistory")[k]

\* C4: the persisted document never holds two reports with one reportId.
C4_NoDuplicateReportIds ==
    "main" \in DOMAIN collection =>
        LET reports == collection["main"].reportedQuestions
        IN  \A m, n \in 1 .. Len(reports) :
                m # n => reports[m].reportId # reports[n].reportId

\* two reports persisted while an invocation that read an older document
\* is about to write a list it merged from an incoming list that repeats a
\* reportId
C4_Witness ==
    /\ "main" \in DOMAIN collection
    /\ Len(collection["main"].reportedQuestions) = 2
    /\ \E c \in Clients :
        /\ HasMerged(c)
        /\ StoredF(c, "reportedQuestions") #
           collection["main"].reportedQuestions
        /\ LET l == IncomingF(c, "reportedQuestions")
           IN  \E m, n \in 1 .. Len(l) :
                  m # n /\ l[m].reportId = l[n].reportId

\* the stored score of a (date, player) pair, 0 when there is none
StoredScore(c, pr) ==
    IF pr \in Pairs(StoredF(c, "dailyRevisionScores"))
    THEN At(StoredF(c, "dailyRevisionScores"), pr) ELSE 0

\* C5: in every merge each (date, player) of the incoming
\* dailyRevisionScores ends as stored (or 0) plus incoming, and each pair
\* only stored keeps its stored score.
C5_ScoresAreSummed ==
    \A c \in Clients : HasMerged(c) =>
        /\ \A pr \in Pairs(IncomingF(c, "dailyRevisionScores")) :
            /\ pr \in Pairs(MergedF(c, "dailyRevisionScores"))
            /\ At(MergedF(c, "dailyRevisionScores"), pr) =
               StoredScore(c, pr) + At(IncomingF(c, "dailyRevisionScores"), pr)
        /\ \A pr \in Pairs(StoredF(c, "dailyRevisionScores")) \
                     Pairs(IncomingF(c, "dailyRevisionScores")) :
            /\ pr \in Pairs(MergedF(c, "dailyRevisionScores"))
            /\ At(MergedF(c, "dailyRevisionScores"), pr) = StoredScore(c, pr)

\* a merge that adds a non-zero score to a non-zero stored one, starts a
\* new pair, and passes a stored-only pair through
C5_Witness ==
    \E c \in Clients :
        /\ HasMerged(c)
        /\ \E pr \in Pairs(IncomingF(c, "dailyRevisionScores")) :
              /\ StoredScore(c, pr) # 0
              /\ At(IncomingF(c, "dailyRevisionScores"), pr) # 0
        /\ Pairs(IncomingF(c, "dailyRevisionScores")) \
           Pairs(StoredF(c, "dailyRevisionScores")) # {}
        /\ Pairs(StoredF(c, "dailyRevisionScores")) \
           Pairs(IncomingF(c, "dailyRevisionScores")) # {}

\* C6: in every merge each stored (date, player) score is still there and
\* no lower than it was.
C6_ScoresNeverDecrease ==
    \A c \in Clients : HasMerged(c) =>
        \A pr \in Pairs(StoredF(c, "dailyRevisionScores")) :
            /\ pr \in Pairs(MergedF(c, "dailyRevisionScores"))
            /\ At(MergedF(c, "dailyRevisionScores"), pr) >= StoredScore(c, pr)

\* no document was stored when the invocation read
StoredAbsent(c) == existingData[c] = EmptyObject

\* C7 as the spec states it: merged against an absent document, each of
\* the six fields equals incoming's field, or is empty when incoming omits
\* it.
C7_AbsentStoredGivesIncoming ==
    \A c \in Clients : (HasMerged(c) /\ StoredAbsent(c)) =>
        \A f \in FieldNames : MergedF(c, f) = IncomingF(c, f)

\* the records of a list whose reportId does not occur earlier in it
RECURSIVE FirstOccurrences(_, _)
FirstOccurrences(l, n) ==
    IF n = 0 THEN <<>>
    ELSE IF \E m \in 1 .. (n - 1) : l[m].reportId = l[n].reportId
         THEN FirstOccurrences(l, n - 1)
         ELSE Append(FirstOccurrences(l, n - 1), l[n])

\* C7 amended: merged against an absent document, the five mappings equal
\* incoming's (empty when omitted) and reportedQuestions is incoming's list
\* without the records that repeat the reportId of an earlier record.
C7_AbsentStoredGivesDedupedIncoming ==
    \A c \in Clients : (HasMerged(c) /\ StoredAbsent(c)) =>
        /\ \A f \in FieldNames \ {"reportedQuestions"} :
              MergedF(c, f) = IncomingF(c, f)
        /\ MergedF(c, "reportedQuestions") =
           FirstOccurrences(IncomingF(c, "reportedQuestions"),
                            Len(IncomingF(c, "reportedQuestions")))

\* a merge against an absent document of a list whose two records share a
\* reportId and differ in text
C7_Witness ==
    \E c \in Clients :
        /\ HasMerged(c)
        /\ StoredAbsent(c)
        /\ LET l == IncomingF(c, "reportedQuestions")
           IN  /\ Len(l) = 2
               /\ l[1].reportId = l[2].reportId
               /\ l[1].text # l[2].text

IdempotentFields ==
    {"playerProfiles", "practiceHistory", "revisionProgress",
     "reportedQuestions"}

\* C8: merging the same incoming once more into the result of a merge
\* gives the same playerProfiles, practiceHistory, revisionProgress and
\* reportedQuestions.
C8_SecondMergeChangesNothing ==
    \A c \in Clients : HasMerged(c) =>
        \A f \in IdempotentFields :
            Merge(mergedData[c], incomingData[c])[f] = MergedF(c, f)

\* a merge in which incoming changed each of the four fields
C8_Witness ==
    \E c \in Clients :
        /\ HasMerged(c)
        /\ \A f \in IdempotentFields : MergedF(c, f) # StoredF(c, f)

\* dailyRevisionScores after the same incoming is merged a second time
ScoresAgain(c) == Merge(mergedData[c], incomingData[c]).dailyRevisionScores

\* C9 as the spec states it: on the second merge of the same incoming
\* dailyRevisionScores strictly increases (some score is higher than after
\* the first merge).
C9_SecondMergeStrictlyIncreases ==
    \A c \in Clients : HasMerged(c) =>
        \E pr \in Pairs(ScoresAgain(c)) :
            /\ pr \in Pairs(MergedF(c, "dailyRevisionScores"))
            /\ At(ScoresAgain(c), pr) > At(MergedF(c, "dailyRevisionScores"), pr)

\* the (date, player) pairs for which incoming submits a positive score
PositivePairs(c) ==
    {pr \in Pairs(IncomingF(c, "dailyRevisionScores")) :
        At(IncomingF(c, "dailyRevisionScores"), pr) > 0}

\* C9 amended: on the second merge of the same incoming every pair with a
\* positive incoming score is strictly higher than after the first merge,
\* by that score, and no score is higher when incoming has no such pair.
C9_SecondMergeAddsAgain ==
    \A c \in Clients : HasMerged(c) =>
        /\ \A pr \in PositivePairs(c) :
            /\ At(ScoresAgain(c), pr) > At(MergedF(c, "dailyRevisionScores"), pr)
            /\ At(ScoresAgain(c), pr) =
               At(MergedF(c, "dailyRevisionScores"), pr) +
               At(IncomingF(c, "dailyRevisionScores"), pr)
        /\ PositivePairs(c) = {} =>
            \A pr \in Pairs(ScoresAgain(c)) :
                /\ pr \in Pairs(MergedF(c, "dailyRevisionScores"))
                /\ At(ScoresAgain(c), pr) <=
                   At(MergedF(c, "dailyRevisionScores"), pr)

\* a merge onto stored scores of an incoming with a positive score
C9_Witness ==
    \E c \in Clients :
        /\ HasMerged(c)
        /\ \E pr \in PositivePairs(c) :
              pr \in Pairs(StoredF(c, "dailyRevisionScores"))

IsPost(c) == event[c].httpMethod = "POST"
Returns(c) == pc[c] # "idle" /\ pc'[c] = "idle"
Succeeded(r) == r.statusCode = 200 /\ "success" \in DOMAIN r.body

\* C11: no step of a POST whose body does not parse merges or writes; the
\* invocation gets no further than the parse and answers with a failure.
C11_MalformedPostRejected ==
    [][\A c \in Clients :
          (IsPost(c) /\ ~event[c].body.parses /\ pc'[c] # pc[c]) =>
              /\ collection' = collection
              /\ mergedData'[c] = mergedData[c]
              /\ pc'[c] \in {"connected", "idle"}
              /\ pc'[c] = "idle" => response'[c].statusCode = 500]_vars

\* a parse failure has been answered while a document is stored
C11_Witness ==
    \E c \in Clients :
        /\ response[c] = InternalServerError("JSON.parse")
        /\ "main" \in DOMAIN collection

\* C12: a POST returns either a success after writing the whole merged
\* document, or a failure without any change to the collection.
C12_FailureWritesNothing ==
    [][\A c \in Clients : (IsPost(c) /\ Returns(c)) =>
          \/ /\ Succeeded(response'[c])
             /\ pc[c] = "updateOne"
             /\ collection' = ("main" :> mergedData[c])
          \/ /\ response'[c].statusCode = 500
             /\ collection' = collection]_vars

\* a failed write has been answered and there is still no document
C12_Witness ==
    \E c \in Clients :
        /\ response[c] = InternalServerError("updateOne")
        /\ collection = EmptyObject

\* C13: a POST answers success only from the updateOne, after it wrote its
\* merged document under 'main', with the key counts of the playerProfiles
\* and questionSets it wrote; and it gets to the updateOne only from the
\* findOne, with the document read there as existingData.
C13_SuccessAfterReadAndWrite ==
    [][\A c \in Clients :
          /\ (IsPost(c) /\ Returns(c) /\ Succeeded(response'[c])) =>
                /\ pc[c] = "updateOne"
                /\ "main" \in DOMAIN collection'
                /\ collection'["main"] = mergedData[c]
                /\ response'[c].body.stats.players =
                   Cardinality(DOMAIN collection'["main"].playerProfiles)
                /\ response'[c].body.stats.sets =
                   Cardinality(DOMAIN collection'["main"].questionSets)
          /\ (pc'[c] = "updateOne" /\ pc[c] # "updateOne") =>
                /\ pc[c] = "findOne"
                /\ existingData'[c] =
                   (IF "main" \in DOMAIN collection
                    THEN collection["main"] ELSE EmptyObject)]_vars

\* a success has been answered with the player count 2 of the document
\* that is stored
C13_Witness ==
    \E c \in Clients :
        /\ Succeeded(response[c])
        /\ "main" \in DOMAIN collection
        /\ response[c].body.stats.players = 2
        /\ Cardinality(DOMAIN collection["main"].playerProfiles) = 2
        /\ workload = "playerProfiles"

\* C14 as the spec states it: an incoming player's merged profile is the
\* incoming one when the player is not stored or incoming totalXP (missing
\* = 0) exceeds stored totalXP (missing = 0), the stored one otherwise; a
\* player only stored keeps the stored profile.
C14_HigherXPWins ==
    \A c \in Clients : HasMerged(c) =>
        LET s == StoredF(c, "playerProfiles")
            i == IncomingF(c, "playerProfiles")
            m == MergedF(c, "playerProfiles")
        IN  /\ DOMAIN m = DOMAIN s \cup DOMAIN i
            /\ \A p \in DOMAIN i :
                  m[p] = IF p \notin DOMAIN s \/ TotalXP(i[p]) > TotalXP(s[p])
                         THEN i[p] ELSE s[p]
            /\ \A p \in DOMAIN s \ DOMAIN i : m[p] = s[p]

\* C14 amended: the incoming profile replaces a stored one only when it
\* has a totalXP and that exceeds stored totalXP (missing = 0); an incoming
\* profile without totalXP never replaces a stored one.
C14_PresentHigherXPWins ==
    \A c \in Clients : HasMerged(c) =>
        LET s == StoredF(c, "playerProfiles")
            i == IncomingF(c, "playerProfiles")
            m == MergedF(c, "playerProfiles")
        IN  /\ DOMAIN m = DOMAIN s \cup DOMAIN i
            /\ \A p \in DOMAIN i :
                  m[p] = IF \/ p \notin DOMAIN s
                            \/ /\ "totalXP" \in DOMAIN i[p]
                               /\ i[p].totalXP > TotalXP(s[p])
                         THEN i[p] ELSE s[p]
            /\ \A p \in DOMAIN s \ DOMAIN i : m[p] = s[p]

\* a merge of an incoming profile that ties the stored one on totalXP and
\* differs from it, next to a player only stored
C14_Witness ==
    \E c \in Clients :
        /\ HasMerged(c)
        /\ \E p \in DOMAIN StoredF(c, "playerProfiles") \cap
                    DOMAIN IncomingF(c, "playerProfiles") :
              /\ "totalXP" \in DOMAIN IncomingF(c, "playerProfiles")[p]
              /\ TotalXP(IncomingF(c, "playerProfiles")[p]) =
                 TotalXP(StoredF(c, "playerProfiles")[p])
              /\ IncomingF(c, "playerProfiles")[p] #
                 StoredF(c, "playerProfiles")[p]
        /\ DOMAIN StoredF(c, "playerProfiles") \
           DOMAIN IncomingF(c, "playerProfiles") # {}

\* the playerProfiles of the persisted document, {} when there is none
PersistedProfiles(coll) ==
    IF "main" \in DOMAIN coll THEN coll["main"].playerProfiles ELSE EmptyObject

\* C15: from one persisted state to the next every player keeps a totalXP
\* (missing = 0) no lower than before, whatever the interleaving.
C15_PersistedXPNeverDecreases ==
    [][\A p \in DOMAIN PersistedProfiles(collection) :
          /\ p \in DOMAIN PersistedProfiles(collection')
          /\ TotalXP(PersistedProfiles(collection')[p]) >=
             TotalXP(PersistedProfiles(collection)[p])]_vars

\* the persisted score of a (date, player) pair, 0 when there is none
PersistedScore(coll, pr) ==
    IF "main" \in DOMAIN coll /\ pr \in Pairs(coll["main"].dailyRevisionScores)
    THEN At(coll["main"].dailyRevisionScores, pr) ELSE 0

\* C16: when a POST writes after another write has raised a score above
\* the one it read, the score it leaves is the one it read plus its own
\* increment: less than the score both read plus both increments.
C16_StaleWriteLosesIncrement ==
    [][\A c \in Clients :
          (IsPost(c) /\ Returns(c) /\ Succeeded(response'[c])) =>
              \A pr \in Pairs(IncomingF(c, "dailyRevisionScores")) :
                  PersistedScore(collection, pr) > StoredScore(c, pr) =>
                      /\ PersistedScore(collection', pr) =
                         StoredScore(c, pr) +
                         At(IncomingF(c, "dailyRevisionScores"), pr)
                      /\ PersistedScore(collection', pr) <
                         PersistedScore(collection, pr) +
                         At(IncomingF(c, "dailyRevisionScores"), pr)]_vars

\* two POSTs of the same increment both read while no document was stored;
\* one has written and been answered, the other is about to write
C16_Witness ==
    \E c, other \in Clients :
        /\ c # other
        /\ HasMerged(c)
        /\ StoredAbsent(c)
        /\ IncomingF(c, "dailyRevisionScores") = [d1 |-> [alice |-> 1]]
        /\ Succeeded(response[other])
        /\ "main" \in DOMAIN collection
        /\ collection["main"].dailyRevisionScores = [d1 |-> [alice |-> 1]]

\* the first n records of incoming whose reportId occurs neither in stored
\* nor earlier in incoming, in incoming's order
RECURSIVE NewReports(_, _, _)
NewReports(stored, incoming, n) ==
    IF n = 0 THEN <<>>
    ELSE IF \/ \E m \in 1 .. Len(stored) :
                  stored[m].reportId = incoming[n].reportId
            \/ \E m \in 1 .. (n - 1) :
                  incoming[m].reportId = incoming[n].reportId
         THEN NewReports(stored, incoming, n - 1)
         ELSE Append(NewReports(stored, incoming, n - 1), incoming[n])

\* C17: in every merge reportedQuestions is the stored list followed by the
\* incoming records whose reportId is new (neither stored nor earlier in
\* incoming), in incoming order; a record with a stored reportId is the
\* stored one.
C17_StoredPrefixThenNewReports ==
    \A c \in Clients : HasMerged(c) =>
        LET s == StoredF(c, "reportedQuestions")
            i == IncomingF(c, "reportedQuestions")
            m == MergedF(c, "reportedQuestions")
        IN  /\ m = s \o NewReports(s, i, Len(i))
            /\ \A n \in 1 .. Len(m) : \A k \in 1 .. Len(s) :
                  m[n].reportId = s[k].reportId => m[n] = s[k]

\* a merge onto a stored list of an incoming list that brings a stored
\* reportId with another text, then a new reportId
C17_Witness ==
    \E c \in Clients :
        /\ HasMerged(c)
        /\ LET s == StoredF(c, "reportedQuestions")
               i == IncomingF(c, "reportedQuestions")
           IN  /\ Len(s) = 1
               /\ Len(i) = 2
               /\ i[1].reportId = s[1].reportId
               /\ i[1].text # s[1].text
               /\ i[2].reportId # s[1].reportId

\* C18: in every merge a field that incoming omits comes out as stored had
\* it (empty when there was none), whatever else incoming holds.
C18_OmittedFieldUnchanged ==
    \A c \in Clients : HasMerged(c) =>
        \A f \in FieldNames \ DOMAIN incomingData[c] :
            MergedF(c, f) = StoredF(c, f)

\* a merge whose incoming omits a field that is stored non-empty and
\* changes another field
C18_Witness ==
    \E c \in Clients :
        /\ HasMerged(c)
        /\ \E f \in FieldNames \ DOMAIN incomingData[c] :
              StoredF(c, f) # EmptyOf(f)
        /\ \E g \in DOMAIN incomingData[c] : MergedF(c, g) # StoredF(c, g)

\* the document with all six fields empty
AllFieldsEmpty == [f \in FieldNames |-> EmptyOf(f)]

\* C19: the collection changes only in the step in which a POST writes and
\* answers success, so no GET, OPTIONS or other request creates or changes
\* the document; a GET answers the stored document, or the all-empty
\* document when none is stored.
C19_OnlyPostWrites ==
    [][/\ collection' # collection =>
            \E c \in Clients :
                /\ IsPost(c)
                /\ pc[c] = "updateOne"
                /\ Returns(c)
                /\ Succeeded(response'[c])
       /\ \A c \in Clients :
            (event[c].httpMethod = "GET" /\ Returns(c) /\
             response'[c].statusCode = 200) =>
                /\ collection' = collection
                /\ response'[c].body =
                   (IF "main" \in DOMAIN collection
                    THEN collection["main"] ELSE AllFieldsEmpty)]_vars

\* a GET has been answered with the all-empty document and nothing is
\* stored
C19_Witness ==
    \E c \in Clients :
        /\ response[c] = [statusCode |-> 200, body |-> AllFieldsEmpty]
        /\ collection = EmptyObject

\* C20: the cache is set only by a connect that succeeded, to that
\* connect's client; once set it keeps the same handle for good; a client
\* is created only while the cache is empty; a failed connect leaves the
\* cache as it was.
C20_CacheSetOnce ==
    [][/\ cachedClient # "null" => cachedClient' = cachedClient
       /\ cachedClient' # cachedClient =>
            \E c \in Clients :
                pc[c] = "connecting" /\ pc'[c] = "connected" /\
                cachedClient' = c
       /\ \A c \in Clients :
            /\ (pc[c] = "idle" /\ pc'[c] = "connecting") =>
                  cachedClient = "null"
            /\ (pc[c] = "connecting" /\ pc'[c] = "idle") =>
                  cachedClient' = cachedClient]_vars

====
